---- MODULE Spec2Model ----
(***************************************************************************)
(* Model of sql_data_analysis_ai_agent.py: the preprocessing pipeline      *)
(* preprocess_and_save (parse, escape, infer types, write a snapshot) and  *)
(* the upload handling of the Streamlit script that calls it.              *)
(*                                                                         *)
(* Text is a sequence of one-character strings, so that suffix tests,      *)
(* lower-casing, substring search and quote doubling are computed.         *)
(* A cell is a record [k, v]: k is "null", "text", "num" or "date" and v   *)
(* is the literal the value was read from.                                 *)
(***************************************************************************)
EXTENDS Integers, Sequences, FiniteSets, TLC

VARIABLES
    pc,       \* per session: the stage the running invocation is about to execute
    file,     \* per session: the uploaded file (the argument of the invocation)
    df,       \* per session: the DataFrame of the running invocation
    parsed,   \* per session: the DataFrame as the parser returned it
    escaped,  \* per session: the DataFrame as the escaping loop left it
    trace,    \* per session: the library calls the invocation has made, in order
    tmp,      \* per session: the temporary file the invocation has created
    ret,      \* per session: the triple the invocation returned
    callid,   \* per session: the number of the running invocation
    ncalls,   \* invocations started so far
    disk,     \* the temporary directory: path -> file
    session,  \* per session: st.session_state
    clicked,  \* per session: the script run was started by the Run Analysis button
    calls     \* the results of the invocations that returned successfully

vars == <<pc, file, df, parsed, escaped, trace, tmp, ret, callid, ncalls, disk, session, clicked, calls>>

(* ------------------------------ bounds --------------------------------- *)

MaxRows == 2

MaxPaths == 2

MaxCalls == 2

MaxHistory == 1

(* ------------------------------- text ---------------------------------- *)

QUOTE == "\""

DotCsv == <<".", "c", "s", "v">>

DotXlsx == <<".", "x", "l", "s", "x">>

DateWord == <<"d", "a", "t", "e">>

TxtEmpty == << >>

TxtNA == <<"N", "A">>

TxtNSlashA == <<"N", "/", "A">>

TxtMissing == <<"m", "i", "s", "s", "i", "n", "g">>

TxtNan == <<"n", "a", "n">>

TxtOne == <<"1">>

TxtQuoted == <<QUOTE, "x", QUOTE>>

TxtDay == <<"2", "0", "2", "0", "-", "0", "1", "-", "0", "1">>

Midnight == <<" ", "0", "0", ":", "0", "0", ":", "0", "0">>

Digits == {"0", "1", "2", "3", "4", "5", "6", "7", "8", "9"}

\* str.endswith
EndsWith(s, suf) ==
    /\ Len(s) >= Len(suf)
    /\ SubSeq(s, Len(s) - Len(suf) + 1, Len(s)) = suf

LowerChar(c) ==
    CASE c = "A" -> "a"
      [] c = "C" -> "c"
      [] c = "D" -> "d"
      [] c = "E" -> "e"
      [] c = "N" -> "n"
      [] c = "S" -> "s"
      [] c = "T" -> "t"
      [] c = "V" -> "v"
      [] OTHER -> c

\* str.lower
Lower(s) == [i \in 1..Len(s) |-> LowerChar(s[i])]

\* the Python test `sub in s` on strings
Contains(s, sub) ==
    \E i \in 1..(Len(s) - Len(sub) + 1) : SubSeq(s, i, i + Len(sub) - 1) = sub

RECURSIVE DoubleQuotes(_)
\* Series.replace({'"': '""'}, regex=True) on one string
DoubleQuotes(s) ==
    IF s = << >> THEN << >>
    ELSE (IF Head(s) = QUOTE THEN <<QUOTE, QUOTE>> ELSE <<Head(s)>>) \o DoubleQuotes(Tail(s))

AllDigits(s) == Len(s) > 0 /\ \A i \in 1..Len(s) : s[i] \in Digits

\* the number grammar of the parsers and of pd.to_numeric, restricted to
\* unsigned integer literals
IsNumberText(s) == AllDigits(s)

\* the date grammar of pd.to_datetime, restricted to digit runs and
\* digits-digits-digits
IsDateText(s) ==
    \/ AllDigits(s)
    \/ \E i, j \in 1..Len(s) :
          /\ i < j
          /\ s[i] = "-" /\ s[j] = "-"
          /\ AllDigits(SubSeq(s, 1, i - 1))
          /\ AllDigits(SubSeq(s, i + 1, j - 1))
          /\ AllDigits(SubSeq(s, j + 1, Len(s)))

(* ------------------------------- cells --------------------------------- *)

Null == [k |-> "null", v |-> << >>]

Txt(s) == [k |-> "text", v |-> s]

Num(s) == [k |-> "num", v |-> s]

Dat(s) == [k |-> "date", v |-> s]

StrLabel(s) == [k |-> "str", v |-> s]

IntLabel(s) == [k |-> "int", v |-> s]

None == [k |-> "none"]

\* na_values=['NA', 'N/A', 'missing'] of both read calls
SentinelTokens == {TxtNA, TxtNSlashA, TxtMissing}

\* keep_default_na is left at its default, so the parser's own tokens
\* (among them the empty string and "nan") stay in force
NaValues == SentinelTokens \cup {TxtEmpty, TxtNan}

(* ------------------------------ inputs --------------------------------- *)

NameCsv == <<"a">> \o DotCsv

NameXlsx == <<"b">> \o DotXlsx

NameUpper == <<"a", ".", "C", "S", "V">>

NameTxt == <<"a", ".", "t", "x", "t">>

FileNames == {NameCsv, NameXlsx, NameUpper, NameTxt}

SampleTexts == {TxtEmpty, TxtNA, TxtNSlashA, TxtMissing, TxtOne, TxtQuoted, TxtDay}

\* a delimited-text source holds text only
CsvCells == {Txt(t) : t \in SampleTexts}

\* a spreadsheet also holds native numbers, native dates and blank cells
XlsxCells ==
    {Txt(t) : t \in SentinelTokens \cup {TxtQuoted}} \cup {Num(TxtOne), Dat(TxtDay), Null}

CsvLabels == {StrLabel(<<"n">>), StrLabel(<<"D", "a", "t", "e">>)}

\* a numeric header cell of a spreadsheet is read as an integer label
XlsxLabels == CsvLabels \cup {IntLabel(<<"2">>)}

CellSeqs(S) == UNION {[1..n -> S] : n \in 0..MaxRows}

RawColumns(labels, cells) ==
    {[label |-> l, cells |-> cs] : l \in labels, cs \in CellSeqs(cells)}

\* the column of row identifiers a table may start with
IdColumn(n, c) == [label |-> StrLabel(<<"i", "d">>), cells |-> [i \in 1..n |-> c]]

CsvTables ==
    {<<c>> : c \in RawColumns(CsvLabels, CsvCells)}
    \cup {<<IdColumn(Len(c.cells), Txt(TxtOne)), c>> : c \in RawColumns(CsvLabels, CsvCells)}

XlsxTables ==
    {<<c>> : c \in RawColumns(XlsxLabels, XlsxCells)}
    \cup {<<IdColumn(Len(c.cells), Num(TxtOne)), c>> : c \in RawColumns(XlsxLabels, XlsxCells)}

\* an uploaded file: its name, whether its bytes conform to a tabular
\* format, and the grid of cells they hold
Files ==
    {[name |-> NameCsv, ok |-> TRUE, cols |-> t] : t \in CsvTables}
    \cup {[name |-> NameXlsx, ok |-> TRUE, cols |-> t] : t \in XlsxTables}
    \cup {[name |-> n, ok |-> TRUE, cols |-> <<c>>] :
              n \in {NameUpper, NameTxt}, c \in RawColumns(CsvLabels, CsvCells)}
    \cup {[name |-> n, ok |-> FALSE, cols |-> << >>] : n \in FileNames}

(* ------------------------------ parsing -------------------------------- *)

\* na_values: a text cell equal to one of the tokens is read as missing
ParseCell(c) == IF c.k = "text" /\ c.v \in NaValues THEN Null ELSE c

NumericLike(c) == c.k = "null" \/ c.k = "num" \/ (c.k = "text" /\ IsNumberText(c.v))

AsNumber(c) == IF c.k = "null" THEN Null ELSE Num(c.v)

\* the parser's column typing: a column with rows whose present cells are
\* all numbers is numeric, one whose present cells are all native dates is
\* a date column, every other column holds objects
ParseColumn(rc) ==
    LET cs == [i \in 1..Len(rc.cells) |-> ParseCell(rc.cells[i])]
        n == Len(cs)
    IN  IF n > 0 /\ \A i \in 1..n : NumericLike(cs[i])
        THEN [label |-> rc.label, dtype |-> "numeric", cells |-> [i \in 1..n |-> AsNumber(cs[i])]]
        ELSE IF n > 0 /\ \A i \in 1..n : cs[i].k \in {"null", "date"}
        THEN [label |-> rc.label, dtype |-> "datetime", cells |-> cs]
        ELSE [label |-> rc.label, dtype |-> "object", cells |-> cs]

\* pd.read_csv / pd.read_excel with the same na_values
ReadTable(f) == [i \in 1..Len(f.cols) |-> ParseColumn(f.cols[i])]

(* ------------------------------ escaping ------------------------------- *)

\* astype(str) on one cell: a missing value becomes the text "nan"
StrOf(c) ==
    CASE c.k = "null" -> TxtNan
      [] c.k = "date" -> c.v \o Midnight
      [] OTHER -> c.v

EscapeCell(c) == Txt(DoubleQuotes(StrOf(c)))

EscapeColumn(col) ==
    IF col.dtype = "object"
    THEN [col EXCEPT !.cells = [i \in 1..Len(col.cells) |-> EscapeCell(col.cells[i])]]
    ELSE col

EscapeTable(t) == [i \in 1..Len(t) |-> EscapeColumn(t[i])]

(* --------------------------- type inference ---------------------------- *)

\* 'date' in col, without the lower()
IsDateNameCaseSensitive(label) == Contains(label.v, DateWord)

\* 'date' in col.lower(); col.lower() exists on string labels only
IsDateName(label) == Contains(Lower(label.v), DateWord)

\* pd.to_datetime(..., errors='coerce') on one cell
ToDatetimeCell(c) ==
    CASE c.k = "null" -> Null
      [] c.k = "date" -> c
      [] c.k = "num" -> Dat(c.v)
      [] OTHER -> IF IsDateText(c.v) THEN Dat(c.v) ELSE Null

ToDatetime(col) ==
    [col EXCEPT !.dtype = "datetime",
                !.cells = [i \in 1..Len(col.cells) |-> ToDatetimeCell(col.cells[i])]]

\* what pd.to_numeric accepts in an object column
ParsesAsNumber(c) ==
    \/ c.k \in {"null", "num"}
    \/ c.k = "text" /\ (IsNumberText(c.v) \/ c.v = TxtNan)

ToNumericCell(c) == IF c.k = "null" \/ c.v = TxtNan THEN Null ELSE Num(c.v)

\* try: pd.to_numeric(df[col]) except (ValueError, TypeError): pass
ToNumeric(col) ==
    IF \A i \in 1..Len(col.cells) : ParsesAsNumber(col.cells[i])
    THEN [col EXCEPT !.dtype = "numeric",
                     !.cells = [i \in 1..Len(col.cells) |-> ToNumericCell(col.cells[i])]]
    ELSE col

InferColumn(col) ==
    IF IsDateName(col.label) THEN ToDatetime(col)
    ELSE IF col.dtype = "object" THEN ToNumeric(col)
    ELSE col

InferTable(t) == [i \in 1..Len(t) |-> InferColumn(t[i])]

\* col.lower() raises AttributeError on a label that is not a string
InferRaises(t) == \E i \in 1..Len(t) : t[i].label.k # "str"

(* ------------------------------ writing -------------------------------- *)

FieldText(c) ==
    CASE c.k = "null" -> << >>
      [] c.k = "date" -> c.v \o Midnight
      [] OTHER -> c.v

\* csv.QUOTE_ALL
QuoteField(s) == <<QUOTE>> \o DoubleQuotes(s) \o <<QUOTE>>

NumRows(t) == IF Len(t) = 0 THEN 0 ELSE Len(t[1].cells)

\* df.to_csv(index=False, quoting=csv.QUOTE_ALL): the header line, then
\* one line per row
ToCsvLines(t) ==
    <<[j \in 1..Len(t) |-> QuoteField(t[j].label.v)]>>
    \o [i \in 1..NumRows(t) |-> [j \in 1..Len(t) |-> QuoteField(FieldText(t[j].cells[i]))]]

\* df.columns.tolist()
ColumnList(t) == [j \in 1..Len(t) |-> t[j].label]

(* --------------------------- the pipeline ------------------------------ *)

Sessions == {1, 2}

Some(x) == [k |-> "some", v |-> x]

Path(p) == [k |-> "path", n |-> p]

NoResult == [path |-> None, columns |-> None, df |-> None]

\* return None, None, None of the unsupported-format branch
UnsupportedResult == NoResult

\* an except clause that hands out the path of the file it had created
ExceptResultLeak(t) == [path |-> t, columns |-> None, df |-> None]

\* return None, None, None of the except clause; t is the temporary file
\* the invocation had created, if any
ExceptResult(t) == NoResult

\* return temp_path, df.columns.tolist(), df
SuccessResult(t, d) == [path |-> t, columns |-> Some(ColumnList(d)), df |-> Some(d)]

\* a dispatcher that lower-cases the name before the suffix test
FormatAnyCase(name) ==
    IF EndsWith(Lower(name), DotCsv) THEN "read_csv"
    ELSE IF EndsWith(Lower(name), DotXlsx) THEN "read_excel"
    ELSE "unsupported"

\* the if / elif / else on file.name.endswith
Format(name) ==
    IF EndsWith(name, DotCsv) THEN "read_csv"
    ELSE IF EndsWith(name, DotXlsx) THEN "read_excel"
    ELSE "unsupported"

\* a writer that always opens the same file name
AllocPathsFixed(d) == {1}

\* the names tempfile.NamedTemporaryFile may pick: it creates the file
\* exclusively, so a name that exists is never chosen
AllocPaths(d) == (1..MaxPaths) \ DOMAIN d

EmptyDisk == [p \in {} |-> None]

InitSession ==
    [dataframe |-> None, file_path |-> None, columns |-> None,
     last_file_name |-> None, query_history |-> << >>]

Init ==
    /\ pc = [s \in Sessions |-> "Idle"]
    /\ file = [s \in Sessions |-> None]
    /\ df = [s \in Sessions |-> << >>]
    /\ parsed = [s \in Sessions |-> << >>]
    /\ escaped = [s \in Sessions |-> << >>]
    /\ trace = [s \in Sessions |-> << >>]
    /\ tmp = [s \in Sessions |-> None]
    /\ ret = [s \in Sessions |-> NoResult]
    /\ callid = [s \in Sessions |-> 0]
    /\ ncalls = 0
    /\ disk = EmptyDisk
    /\ session = [s \in Sessions |-> InitSession]
    /\ clicked = [s \in Sessions |-> FALSE]
    /\ calls = {}

\* entry of preprocess_and_save(file)
Begin(s, f) ==
    /\ pc[s] = "Idle"
    /\ ncalls < MaxCalls
    /\ pc' = [pc EXCEPT ![s] = "Parsing"]
    /\ file' = [file EXCEPT ![s] = f]
    /\ df' = [df EXCEPT ![s] = << >>]
    /\ parsed' = [parsed EXCEPT ![s] = << >>]
    /\ escaped' = [escaped EXCEPT ![s] = << >>]
    /\ trace' = [trace EXCEPT ![s] = << >>]
    /\ tmp' = [tmp EXCEPT ![s] = None]
    /\ ret' = [ret EXCEPT ![s] = NoResult]
    /\ ncalls' = ncalls + 1
    /\ callid' = [callid EXCEPT ![s] = ncalls + 1]
    /\ UNCHANGED <<disk, calls>>

Invoke(s, f) == Begin(s, f) /\ UNCHANGED <<session, clicked>>

\* the else branch of the suffix test: st.error, return None, None, None
Reject(s) ==
    /\ pc[s] = "Parsing"
    /\ Format(file[s].name) = "unsupported"
    /\ pc' = [pc EXCEPT ![s] = "Failed"]
    /\ ret' = [ret EXCEPT ![s] = UnsupportedResult]
    /\ UNCHANGED <<file, df, parsed, escaped, trace, tmp, callid, ncalls, disk, session, clicked, calls>>

\* pd.read_csv / pd.read_excel returns a DataFrame
Parse(s) ==
    /\ pc[s] = "Parsing"
    /\ Format(file[s].name) # "unsupported"
    /\ file[s].ok
    /\ trace' = [trace EXCEPT ![s] = Append(@, Format(file[s].name))]
    /\ df' = [df EXCEPT ![s] = ReadTable(file[s])]
    /\ parsed' = [parsed EXCEPT ![s] = ReadTable(file[s])]
    /\ pc' = [pc EXCEPT ![s] = "Escaping"]
    /\ UNCHANGED <<file, escaped, tmp, ret, callid, ncalls, disk, session, clicked, calls>>

\* a parser failure that is retried instead of reported
ParseFailsRetry(s) ==
    /\ pc[s] = "Parsing"
    /\ Format(file[s].name) # "unsupported"
    /\ ~file[s].ok
    /\ trace' = [trace EXCEPT ![s] = Append(@, Format(file[s].name))]
    /\ UNCHANGED <<pc, file, df, parsed, escaped, tmp, ret, callid, ncalls, disk, session, clicked, calls>>

\* pd.read_csv / pd.read_excel raises on bytes that are not of the format
ParseFails(s) ==
    /\ pc[s] = "Parsing"
    /\ Format(file[s].name) # "unsupported"
    /\ ~file[s].ok
    /\ trace' = [trace EXCEPT ![s] = Append(@, Format(file[s].name))]
    /\ pc' = [pc EXCEPT ![s] = "Failed"]
    /\ ret' = [ret EXCEPT ![s] = ExceptResult(tmp[s])]
    /\ UNCHANGED <<file, df, parsed, escaped, tmp, callid, ncalls, disk, session, clicked, calls>>

\* the loop over df.select_dtypes(include=['object'])
Escape(s) ==
    /\ pc[s] = "Escaping"
    /\ trace' = [trace EXCEPT ![s] = Append(@, "escape")]
    /\ df' = [df EXCEPT ![s] = EscapeTable(df[s])]
    /\ escaped' = [escaped EXCEPT ![s] = EscapeTable(df[s])]
    /\ pc' = [pc EXCEPT ![s] = "Inferring"]
    /\ UNCHANGED <<file, parsed, tmp, ret, callid, ncalls, disk, session, clicked, calls>>

\* the loop over df.columns, every label a string
Infer(s) ==
    /\ pc[s] = "Inferring"
    /\ ~InferRaises(df[s])
    /\ trace' = [trace EXCEPT ![s] = Append(@, "infer")]
    /\ df' = [df EXCEPT ![s] = InferTable(df[s])]
    /\ pc' = [pc EXCEPT ![s] = "Writing"]
    /\ UNCHANGED <<file, parsed, escaped, tmp, ret, callid, ncalls, disk, session, clicked, calls>>

\* the loop over df.columns reaches a label without .lower(): the
\* AttributeError leaves the loop and is caught by the except clause
InferFails(s) ==
    /\ pc[s] = "Inferring"
    /\ InferRaises(df[s])
    /\ trace' = [trace EXCEPT ![s] = Append(@, "infer")]
    /\ pc' = [pc EXCEPT ![s] = "Failed"]
    /\ ret' = [ret EXCEPT ![s] = ExceptResult(tmp[s])]
    /\ UNCHANGED <<file, df, parsed, escaped, tmp, callid, ncalls, disk, session, clicked, calls>>

\* tempfile.NamedTemporaryFile(delete=False, suffix=".csv") creates a file
Alloc(s) ==
    /\ pc[s] = "Writing"
    /\ tmp[s] = None
    /\ \E p \in AllocPaths(disk) :
          /\ disk' = [q \in DOMAIN disk \cup {p} |->
                         IF q = p
                         THEN [owner |-> callid[s], writer |-> 0, state |-> "empty", lines |-> << >>]
                         ELSE disk[q]]
          /\ tmp' = [tmp EXCEPT ![s] = Path(p)]
    /\ trace' = [trace EXCEPT ![s] = Append(@, "alloc")]
    /\ UNCHANGED <<pc, file, df, parsed, escaped, ret, callid, ncalls, session, clicked, calls>>

\* tempfile.NamedTemporaryFile raises (no space, no permission, no name)
AllocFails(s) ==
    /\ pc[s] = "Writing"
    /\ tmp[s] = None
    /\ trace' = [trace EXCEPT ![s] = Append(@, "alloc")]
    /\ pc' = [pc EXCEPT ![s] = "Failed"]
    /\ ret' = [ret EXCEPT ![s] = ExceptResult(tmp[s])]
    /\ UNCHANGED <<file, df, parsed, escaped, tmp, callid, ncalls, disk, session, clicked, calls>>

\* df.to_csv(tmp.name, ...) completes; temp_path = tmp.name; return
WriteCsv(s) ==
    /\ pc[s] = "Writing"
    /\ tmp[s] # None
    /\ trace' = [trace EXCEPT ![s] = Append(@, "to_csv")]
    /\ disk' = [disk EXCEPT ![tmp[s].n] =
                   [@ EXCEPT !.writer = callid[s], !.state = "complete", !.lines = ToCsvLines(df[s])]]
    /\ pc' = [pc EXCEPT ![s] = "Done"]
    /\ ret' = [ret EXCEPT ![s] = SuccessResult(tmp[s], df[s])]
    /\ calls' = calls \cup {[id |-> callid[s], name |-> file[s].name, result |-> SuccessResult(tmp[s], df[s])]}
    /\ UNCHANGED <<file, df, parsed, escaped, tmp, callid, ncalls, session, clicked>>

\* df.to_csv raises: the file is left with whatever had been written,
\* which the model does not record
WriteFails(s) ==
    /\ pc[s] = "Writing"
    /\ tmp[s] # None
    /\ trace' = [trace EXCEPT ![s] = Append(@, "to_csv")]
    /\ disk' = [disk EXCEPT ![tmp[s].n] = [@ EXCEPT !.writer = callid[s], !.state = "partial"]]
    /\ pc' = [pc EXCEPT ![s] = "Failed"]
    /\ ret' = [ret EXCEPT ![s] = ExceptResult(tmp[s])]
    /\ UNCHANGED <<file, df, parsed, escaped, tmp, callid, ncalls, session, clicked, calls>>

\* the body of preprocess_and_save, one stage at a time
Run(s) ==
    \/ Reject(s)
    \/ Parse(s)
    \/ ParseFails(s)
    \/ Escape(s)
    \/ Infer(s)
    \/ InferFails(s)
    \/ Alloc(s)
    \/ AllocFails(s)
    \/ WriteCsv(s)
    \/ WriteFails(s)

\* one invocation of preprocess_and_save on any file
Next ==
    \/ \E f \in Files : Invoke(1, f)
    \/ Run(1)

Spec == Init /\ [][Next]_vars

(* ------------------------- the calling script -------------------------- *)

Query == <<"q">>

AppTable == <<[label |-> StrLabel(<<"n">>), cells |-> <<Txt(TxtQuoted), Txt(TxtNA)>>]>>

YearTable == <<[label |-> IntLabel(<<"2">>), cells |-> <<Num(TxtOne)>>]>>

\* the files a user offers to st.file_uploader(type=["csv", "xlsx"]),
\* which compares extensions without regard to case
AppFiles ==
    {[name |-> n, ok |-> TRUE, cols |-> AppTable] : n \in {NameCsv, NameXlsx, NameUpper}}
    \cup {[name |-> NameXlsx, ok |-> TRUE, cols |-> YearTable]}
    \cup {[name |-> NameCsv, ok |-> FALSE, cols |-> << >>]}

\* Python truth value of the returned column list
Truthy(c) == c # None /\ Len(c.v) > 0

\* st.session_state.dataframe is None or uploaded_file.name != last_file_name
NeedsPreprocessing(st, f) ==
    st.dataframe = None \/ Some(f.name) # st.last_file_name

\* the assignments without the test of the result
StoredUnchecked(st, r, name) ==
    [dataframe |-> r.df, file_path |-> r.path, columns |-> r.columns,
     last_file_name |-> Some(name), query_history |-> << >>]

\* the assignments under `if path and cols and df is not None`
Stored(st, r, name) ==
    IF r.path # None /\ Truthy(r.columns) /\ r.df # None
    THEN [dataframe |-> r.df, file_path |-> r.path, columns |-> r.columns,
          last_file_name |-> Some(name), query_history |-> << >>]
    ELSE st

\* the user puts a file in the uploader: the script runs and preprocesses
\* it unless a table of that name is cached
Upload(s, f) ==
    /\ pc[s] = "Idle"
    /\ IF NeedsPreprocessing(session[s], f)
       THEN Begin(s, f) /\ UNCHANGED <<session, clicked>>
       ELSE /\ file' = [file EXCEPT ![s] = f]
            /\ UNCHANGED <<pc, df, parsed, escaped, trace, tmp, ret, callid, ncalls, disk, session, clicked, calls>>

\* the user presses Run Analysis with a non-blank query: the script runs
\* with the file still in the uploader
ClickRun(s) ==
    /\ pc[s] = "Idle"
    /\ file[s] # None
    /\ session[s].dataframe # None
    /\ Len(session[s].query_history) < MaxHistory
    /\ clicked' = [clicked EXCEPT ![s] = TRUE]
    /\ IF NeedsPreprocessing(session[s], file[s])
       THEN Begin(s, file[s]) /\ UNCHANGED session
       ELSE /\ pc' = [pc EXCEPT ![s] = "Preview"]
            /\ UNCHANGED <<file, df, parsed, escaped, trace, tmp, ret, callid, ncalls, disk, session, calls>>

\* preprocess_and_save has returned: the if / else on its result
AppStore(s) ==
    /\ pc[s] \in {"Done", "Failed"}
    /\ session' = [session EXCEPT ![s] = Stored(@, ret[s], file[s].name)]
    /\ pc' = [pc EXCEPT ![s] = IF clicked[s] THEN "Preview" ELSE "Idle"]
    /\ df' = [df EXCEPT ![s] = << >>]
    /\ parsed' = [parsed EXCEPT ![s] = << >>]
    /\ escaped' = [escaped EXCEPT ![s] = << >>]
    /\ trace' = [trace EXCEPT ![s] = << >>]
    /\ tmp' = [tmp EXCEPT ![s] = None]
    /\ ret' = [ret EXCEPT ![s] = NoResult]
    /\ callid' = [callid EXCEPT ![s] = 0]
    /\ UNCHANGED <<file, ncalls, disk, clicked, calls>>

\* the preview and query section of a run started by the button:
\* query_history.append(user_query) when a table is cached
RunQuery(s) ==
    /\ pc[s] = "Preview"
    /\ session' = [session EXCEPT ![s] =
                      IF @.dataframe # None
                      THEN [@ EXCEPT !.query_history = Append(@, Query)]
                      ELSE @]
    /\ clicked' = [clicked EXCEPT ![s] = FALSE]
    /\ pc' = [pc EXCEPT ![s] = "Idle"]
    /\ UNCHANGED <<file, df, parsed, escaped, trace, tmp, ret, callid, ncalls, disk, calls>>

\* two browser sessions of the application on one temporary directory
NextApp ==
    \E s \in Sessions :
        \/ \E f \in AppFiles : Upload(s, f)
        \/ ClickRun(s)
        \/ Run(s)
        \/ AppStore(s)
        \/ RunQuery(s)

SpecApp == Init /\ [][NextApp]_vars

\* an invocation is one synchronous call that nothing suspends: a stage
\* that can run does run
FairSpec == Init /\ [][Next]_vars /\ WF_vars(Run(1))

(* ------------------------------- claims -------------------------------- *)

Unsupported(name) == ~EndsWith(name, DotCsv) /\ ~EndsWith(name, DotXlsx)

OwnsFile(s) == \E p \in DOMAIN disk : disk[p].owner = callid[s]

AfterParsing(s) == pc[s] \in {"Escaping", "Inferring", "Writing", "Done"}

AfterEscaping(s) == pc[s] \in {"Inferring", "Writing", "Done"}

AfterInferring(s) == pc[s] \in {"Writing", "Done"}

\* C1: an invocation on a file whose name ends neither in ".csv" nor in
\* ".xlsx" (letter case respected) never calls a parser, never creates a
\* temporary file, and ends failed with the result (None, None, None).
C1_UnsupportedSuffixFails ==
    \A s \in Sessions :
        (pc[s] # "Idle" /\ Unsupported(file[s].name)) =>
            /\ pc[s] \in {"Parsing", "Failed"}
            /\ trace[s] = << >>
            /\ tmp[s] = None
            /\ ~OwnsFile(s)
            /\ pc[s] = "Failed" => ret[s] = NoResult

C1_Witness ==
    /\ pc[1] = "Failed"
    /\ file[1].name = NameUpper
    /\ file[1].ok
    /\ ret[1] = NoResult

\* C2: whatever stage raises, the invocation returns (None, None, None);
\* the three returned components are all present or all absent, and a
\* returned path names a completely written file of this invocation.
C2_UniformFailure ==
    \A s \in Sessions :
        /\ pc[s] = "Failed" => ret[s] = NoResult
        /\ \/ ret[s].path = None /\ ret[s].columns = None /\ ret[s].df = None
           \/ ret[s].path # None /\ ret[s].columns # None /\ ret[s].df # None
        /\ ret[s].path # None =>
              /\ pc[s] = "Done"
              /\ ret[s].path.n \in DOMAIN disk
              /\ disk[ret[s].path.n].state = "complete"
              /\ disk[ret[s].path.n].owner = callid[s]

C2_Witness ==
    /\ pc[1] = "Failed"
    /\ tmp[1] # None
    /\ disk[tmp[1].n].state = "partial"
    /\ ret[1] = NoResult

\* C3: invocations, interleaved or one after the other, hold distinct
\* temporary files; each file is written only by the invocation that
\* created it, and the file of a returned result stays as it was written.
C3_DistinctLocations ==
    /\ \A s1, s2 \in Sessions :
          (s1 # s2 /\ tmp[s1] # None /\ tmp[s2] # None) => tmp[s1].n # tmp[s2].n
    /\ \A s \in Sessions :
          tmp[s] # None => tmp[s].n \in DOMAIN disk /\ disk[tmp[s].n].owner = callid[s]
    /\ \A p \in DOMAIN disk : disk[p].writer \in {0, disk[p].owner}
    /\ \A c1, c2 \in calls : c1.id # c2.id => c1.result.path.n # c2.result.path.n
    /\ \A c \in calls :
          /\ disk[c.result.path.n].owner = c.id
          /\ disk[c.result.path.n].state = "complete"
          /\ disk[c.result.path.n].lines = ToCsvLines(c.result.df.v)

C3_Witness ==
    /\ pc[1] = "Writing" /\ tmp[1] # None
    /\ pc[2] = "Writing" /\ tmp[2] # None

\* C4: in the table a successful invocation returns, every cell read from
\* the text "NA", "N/A" or "missing" is a null marker.
C4_SentinelsAreNull ==
    \A s \in Sessions :
        pc[s] = "Done" =>
            \A j \in 1..Len(file[s].cols) :
                \A i \in 1..Len(file[s].cols[j].cells) :
                    (file[s].cols[j].cells[i].k = "text"
                        /\ file[s].cols[j].cells[i].v \in SentinelTokens)
                    => ret[s].df.v[j].cells[i] = Null

\* C5: the parser keeps an empty-string cell as a non-null value, and only
\* the three sentinel tokens (and cells the source leaves blank) are null.
C5_EmptyStringIsValue ==
    \A s \in Sessions :
        AfterParsing(s) =>
            \A j \in 1..Len(file[s].cols) :
                \A i \in 1..Len(file[s].cols[j].cells) :
                    LET raw == file[s].cols[j].cells[i]
                    IN  /\ raw = Txt(TxtEmpty) => parsed[s][j].cells[i].k # "null"
                        /\ parsed[s][j].cells[i].k = "null" =>
                              raw = Null \/ (raw.k = "text" /\ raw.v \in SentinelTokens)

NotDateLabel(label) == ~(label.k = "str" /\ Contains(Lower(label.v), DateWord))

\* the all-or-nothing part of C6: a text column whose name does not
\* contain "date" is numeric after inference exactly if every escaped
\* value parses as a number, and is otherwise left as escaping left it
C6_AllOrNothing ==
    \A s \in Sessions :
        AfterInferring(s) =>
            \A j \in 1..Len(df[s]) :
                (escaped[s][j].dtype = "object" /\ NotDateLabel(escaped[s][j].label)) =>
                    LET all == \A i \in 1..Len(escaped[s][j].cells) :
                                   ParsesAsNumber(escaped[s][j].cells[i])
                    IN  /\ df[s][j].dtype = "numeric" <=> all
                        /\ ~all => df[s][j] = escaped[s][j]

\* C6: numeric coercion of a text column whose name does not contain
\* "date" is all-or-nothing, and the inference stage never raises.
C6_AllOrNothingNeverRaises ==
    /\ C6_AllOrNothing
    /\ \A s \in Sessions :
          ~(pc[s] = "Failed" /\ Len(trace[s]) > 0 /\ trace[s][Len(trace[s])] = "infer")

\* C7: after inference a column whose name contains "date" in any letter
\* case is a date column with as many rows as the source; each cell is the
\* date its escaped value parses to, or null when it does not parse, and
\* none is a number.
C7_DateByName ==
    \A s \in Sessions :
        AfterInferring(s) =>
            \A j \in 1..Len(df[s]) :
                Contains(Lower(df[s][j].label.v), DateWord) =>
                    /\ df[s][j].dtype = "datetime"
                    /\ Len(df[s][j].cells) = Len(file[s].cols[j].cells)
                    /\ \A i \in 1..Len(df[s][j].cells) :
                          LET e == escaped[s][j].cells[i]
                              c == df[s][j].cells[i]
                          IN  /\ c.k \in {"date", "null"}
                              /\ (e.k = "text" /\ ~IsDateText(e.v)) => c = Null
                              /\ (e.k = "text" /\ IsDateText(e.v)) => c = Dat(e.v)
                              /\ e.k = "num" => c = Dat(e.v)

C7_Witness ==
    /\ pc[1] = "Done"
    /\ file[1].cols = <<[label |-> StrLabel(<<"D", "a", "t", "e">>),
                         cells |-> <<Txt(TxtDay), Txt(TxtQuoted)>>]>>
    /\ ret[1].df.v[1].cells = <<Dat(TxtDay), Null>>

\* C8: escaping doubles the quote characters of every value of a column
\* the parser typed as text and changes nothing else; a column the parser
\* typed as numeric or date is left as it is.
C8_EscapeOnlyDoublesQuotes ==
    \A s \in Sessions :
        AfterEscaping(s) =>
            \A j \in 1..Len(parsed[s]) :
                IF parsed[s][j].dtype = "object"
                THEN /\ escaped[s][j].label = parsed[s][j].label
                     /\ Len(escaped[s][j].cells) = Len(parsed[s][j].cells)
                     /\ \A i \in 1..Len(parsed[s][j].cells) :
                           escaped[s][j].cells[i] =
                               IF parsed[s][j].cells[i].k = "text"
                               THEN Txt(DoubleQuotes(parsed[s][j].cells[i].v))
                               ELSE parsed[s][j].cells[i]
                ELSE escaped[s][j] = parsed[s][j]

StageOrder == <<"read", "escape", "infer", "alloc", "to_csv">>

StageOf(op) == IF op \in {"read_csv", "read_excel"} THEN "read" ELSE op

InOrder(s) ==
    /\ Len(trace[s]) <= Len(StageOrder)
    /\ \A i \in 1..Len(trace[s]) : StageOf(trace[s][i]) = StageOrder[i]
    /\ pc[s] = "Parsing" => trace[s] = << >>
    /\ pc[s] = "Escaping" => Len(trace[s]) = 1
    /\ pc[s] = "Inferring" => Len(trace[s]) = 2
    /\ pc[s] = "Writing" => Len(trace[s]) = (IF tmp[s] = None THEN 3 ELSE 4)
    /\ pc[s] = "Done" => Len(trace[s]) = Len(StageOrder)
    /\ OwnsFile(s) => Len(trace[s]) >= 4

Ended(s) == pc[s] \in {"Done", "Failed"}

\* C9: an invocation runs its stages in the order parse, escape, infer,
\* write, none skipped or run twice; once it has ended, in Done or in
\* Failed, nothing more happens (no stage runs and no file is written);
\* and every invocation that has started does end.
C9_Pipeline ==
    /\ [](InOrder(1))
    /\ [][Ended(1) => (pc'[1] = pc[1] /\ trace'[1] = trace[1] /\ disk' = disk)]_vars
    /\ (pc[1] = "Parsing") ~> Ended(1)

C9_Witness ==
    /\ pc[1] = "Failed"
    /\ trace[1] = <<"read_excel", "escape", "infer">>
    /\ disk = EmptyDisk

FromOneCall(st) ==
    \E c \in calls :
        /\ st.dataframe = c.result.df
        /\ st.file_path = c.result.path
        /\ st.columns = c.result.columns
        /\ st.last_file_name = Some(c.name)

CacheFields(st) == <<st.dataframe, st.file_path, st.columns, st.last_file_name>>

\* C10: the four cache fields of a session are all unset or all taken from
\* one successful invocation; handling a failed result changes neither
\* them nor the query history; and an invocation starts only when no table
\* is cached or the uploaded name differs from last_file_name.
C10_SessionCache ==
    /\ [](\A s \in Sessions :
             \/ CacheFields(session[s]) = <<None, None, None, None>>
             \/ FromOneCall(session[s]))
    /\ [][\A s \in Sessions :
             /\ (pc[s] = "Failed" /\ pc'[s] # "Failed") => session'[s] = session[s]
             /\ (pc[s] = "Idle" /\ pc'[s] = "Parsing") =>
                   \/ session[s].dataframe = None
                   \/ session[s].last_file_name # Some(file'[s].name)]_vars

C10_Witness ==
    /\ pc[1] = "Idle"
    /\ session[1].dataframe # None
    /\ session[1].last_file_name = Some(NameXlsx)
    /\ file[1].name = NameCsv
    /\ ncalls = MaxCalls

====
